---- MODULE Spec2Model ----
(***************************************************************************)
(* RUPACAYA (src/src/App.js): the five-step investment wizard of the App   *)
(* component, its validation effect, calcAll and the what-if toggles.      *)
(*                                                                         *)
(* Numbers.  JavaScript strings are sequences of one-character strings.    *)
(* Monthly rates are integers in units of 1/RateScale (1e-5), which holds  *)
(* every entry of the rate table and its halves exactly.  A compounded     *)
(* value modal * (1 + rate)^months is kept in exact factored form          *)
(* [c, b, n] = c * (b / RateScale)^n and is expanded on demand into an     *)
(* arbitrary-precision natural (little-endian limbs of base Limb), so the  *)
(* arithmetic of the model is exact; the rounding of IEEE doubles is not   *)
(* modelled.                                                               *)
(***************************************************************************)
EXTENDS Integers, Sequences, FiniteSets, TLC

VARIABLES step, nama, usia, pekerjaan, investment, modalStr, monthsStr,
          investorsStr, adj, result, impact, errors, pdb, porsiProduktif,
          lastOp, edits

vars == <<step, nama, usia, pekerjaan, investment, modalStr, monthsStr,
          investorsStr, adj, result, impact, errors, pdb, porsiProduktif,
          lastOp, edits>>

\* the value of a state cell holding null
NULL == [isNull |-> TRUE]

(* ------------------------------------------------------------------ *)
(* Bounds of the model                                                *)
(* ------------------------------------------------------------------ *)
\* the user makes at most MaxEdits inputs (a field edit, a selection, a preset,
\* a what-if pill) between two "Mulai Lagi"; navigation is not counted
MaxEdits == 5
\* compounded values are expanded to naturals for durations up to this
MaxEvalMonths == 12
\* principals 1..MaxPrincipal are compared in the monotonicity check
MaxPrincipal == 4

(* ------------------------------------------------------------------ *)
(* Strings and helpers                                                *)
(* ------------------------------------------------------------------ *)
DigitChars == <<"0", "1", "2", "3", "4", "5", "6", "7", "8", "9">>

IsDigit(c) == \E i \in 1..10 : DigitChars[i] = c

DigitVal(c) == (CHOOSE i \in 1..10 : DigitChars[i] = c) - 1

\* onlyDigits: (s ?? "").toString().replace(/[^\d]/g, "")
onlyDigits(s) == SelectSeq(s, IsDigit)

RECURSIVE NumberOf(_)
\* Number(s) of a string of decimal digits; Number("") is 0
NumberOf(s) ==
  IF s = <<>> THEN 0
  ELSE 10 * NumberOf(SubSeq(s, 1, Len(s) - 1)) + DigitVal(s[Len(s)])

RECURSIVE toString(_)
\* n.toString() of a natural number
toString(n) ==
  IF n < 10 THEN <<DigitChars[n + 1]>>
  ELSE Append(toString(n \div 10), DigitChars[(n % 10) + 1])

\* Number(onlyDigits(s) || 0)
NumOrZero(s) == IF onlyDigits(s) = <<>> THEN 0 ELSE NumberOf(onlyDigits(s))

Max2(a, b) == IF a >= b THEN a ELSE b
Min2(a, b) == IF a <= b THEN a ELSE b

\* clamp = (v, min, max) => Math.max(min, Math.min(max, v))
clamp(v, lo, hi) == Max2(lo, Min2(hi, v))

RECURSIVE TrimLeft(_)
TrimLeft(s) == IF s # <<>> /\ s[1] = " " THEN TrimLeft(Tail(s)) ELSE s

RECURSIVE TrimRight(_)
TrimRight(s) ==
  IF s # <<>> /\ s[Len(s)] = " " THEN TrimRight(SubSeq(s, 1, Len(s) - 1)) ELSE s

\* String.prototype.trim
trim(s) == TrimRight(TrimLeft(s))

(* ------------------------------------------------------------------ *)
(* Arbitrary-precision naturals: little-endian limbs of base Limb     *)
(* ------------------------------------------------------------------ *)
Limb == 10 * 1000

RECURSIVE BigFromInt(_)
BigFromInt(n) == IF n = 0 THEN <<>> ELSE <<n % Limb>> \o BigFromInt(n \div Limb)

RECURSIVE BigAddC(_, _, _)
BigAddC(x, y, carry) ==
  IF x = <<>> /\ y = <<>>
  THEN (IF carry = 0 THEN <<>> ELSE <<carry>>)
  ELSE LET a == IF x = <<>> THEN 0 ELSE x[1]
           b == IF y = <<>> THEN 0 ELSE y[1]
           t == a + b + carry
       IN <<t % Limb>> \o BigAddC(IF x = <<>> THEN <<>> ELSE Tail(x),
                                  IF y = <<>> THEN <<>> ELSE Tail(y),
                                  t \div Limb)

BigAdd(x, y) == BigAddC(x, y, 0)

RECURSIVE BigMulSmallC(_, _, _)
\* x * k + carry for 0 <= k < 2^31 / Limb
BigMulSmallC(x, k, carry) ==
  IF x = <<>> THEN BigFromInt(carry)
  ELSE LET t == x[1] * k + carry
       IN <<t % Limb>> \o BigMulSmallC(Tail(x), k, t \div Limb)

BigMulSmall(x, k) == IF k = 0 THEN <<>> ELSE BigMulSmallC(x, k, 0)

RECURSIVE BigMul(_, _)
BigMul(x, y) ==
  IF y = <<>> \/ x = <<>> THEN <<>>
  ELSE LET rest == BigMul(x, Tail(y))
       IN BigAdd(BigMulSmall(x, y[1]),
                 IF rest = <<>> THEN <<>> ELSE <<0>> \o rest)

RECURSIVE BigLessFrom(_, _, _)
BigLessFrom(x, y, i) ==
  IF i = 0 THEN FALSE
  ELSE IF x[i] # y[i] THEN x[i] < y[i]
  ELSE BigLessFrom(x, y, i - 1)

BigLess(x, y) ==
  IF Len(x) # Len(y) THEN Len(x) < Len(y) ELSE BigLessFrom(x, y, Len(x))

RECURSIVE BigPowSmall(_, _, _)
\* x * k^n
BigPowSmall(x, k, n) ==
  IF n = 0 THEN x ELSE BigPowSmall(BigMulSmall(x, k), k, n - 1)


(* ------------------------------------------------------------------ *)
(* Data makro and base rates                                          *)
(* ------------------------------------------------------------------ *)
RateScale == 100 * 1000

Instruments == {"saham", "obligasi", "deposito", "emas", "reksadana"}

\* macro.trxHarianBEI: 25_020_000_000_000
trxHarianBEI == BigMul(BigFromInt(25020000), BigFromInt(1000000))

\* [mutant] deposito with its moderate and pessimistic rates exchanged
baseDepositoSwapped ==
  [saham     |-> [opt |-> 1500, mod |-> 800, pes |-> -1000],
   obligasi  |-> [opt |-> 700,  mod |-> 400, pes |-> -300],
   deposito  |-> [opt |-> 400,  mod |-> 200, pes |-> 300],
   emas      |-> [opt |-> 600,  mod |-> 400, pes |-> 20],
   reksadana |-> [opt |-> 1200, mod |-> 600, pes |-> -700]]

\* base rates per month, in units of 1/RateScale
base ==
  [saham     |-> [opt |-> 1500, mod |-> 800, pes |-> -1000],
   obligasi  |-> [opt |-> 700,  mod |-> 400, pes |-> -300],
   deposito  |-> [opt |-> 400,  mod |-> 300, pes |-> 200],
   emas      |-> [opt |-> 600,  mod |-> 400, pes |-> 20],
   reksadana |-> [opt |-> 1200, mod |-> 600, pes |-> -700]]

AdjOff == [inflasiUp |-> FALSE, biDown |-> FALSE, ihsgUp |-> FALSE]

AdjAll == [inflasiUp : BOOLEAN, biDown : BOOLEAN, ihsgUp : BOOLEAN]

\* [mutant] the inflation pill takes the same 0.001 off every equity-like rate
DeltaInflasiUpFlat(type) ==
  CASE type = "saham"     -> -100
    [] type = "obligasi"  -> -100
    [] type = "deposito"  -> 50
    [] type = "emas"      -> 100
    [] type = "reksadana" -> -100
    [] OTHER              -> 0

\* the branch of adjustedRatesFor under adj.inflasiUp
DeltaInflasiUp(type) ==
  CASE type = "saham"     -> -200
    [] type = "obligasi"  -> -100
    [] type = "deposito"  -> 50
    [] type = "emas"      -> 100
    [] type = "reksadana" -> -100
    [] OTHER              -> 0

\* the branch of adjustedRatesFor under adj.biDown
DeltaBiDown(type) ==
  CASE type = "saham"     -> 150
    [] type = "obligasi"  -> 100
    [] type = "deposito"  -> -40
    [] type = "emas"      -> 20
    [] type = "reksadana" -> 100
    [] OTHER              -> 0

\* the branch of adjustedRatesFor under adj.ihsgUp
DeltaIhsgUp(type) ==
  CASE type = "saham"     -> 200
    [] type = "reksadana" -> 150
    [] type = "emas"      -> -50
    [] OTHER              -> 0

\* [mutant] a toggle's branch is taken when the toggle is off
DeltaOfInverted(type, a) ==
  (IF ~a.inflasiUp THEN DeltaInflasiUp(type) ELSE 0)
  + (IF a.biDown THEN DeltaBiDown(type) ELSE 0)
  + (IF a.ihsgUp THEN DeltaIhsgUp(type) ELSE 0)

\* [mutant] each branch assigns d instead of adding to it
DeltaOfOverwrite(type, a) ==
  IF a.ihsgUp /\ DeltaIhsgUp(type) # 0 THEN DeltaIhsgUp(type)
  ELSE IF a.biDown THEN DeltaBiDown(type)
  ELSE IF a.inflasiUp THEN DeltaInflasiUp(type)
  ELSE 0

\* the running scalar d of adjustedRatesFor
DeltaOf(type, a) ==
  (IF a.inflasiUp THEN DeltaInflasiUp(type) ELSE 0)
  + (IF a.biDown THEN DeltaBiDown(type) ELSE 0)
  + (IF a.ihsgUp THEN DeltaIhsgUp(type) ELSE 0)

\* [mutant] the pessimistic rate moves by the whole of d
AdjustedRatesNoHalving(type, a) ==
  IF type \notin DOMAIN base THEN NULL
  ELSE LET b == base[type]
           d == DeltaOf(type, a)
       IN [opt |-> b.opt + d, mod |-> b.mod + d, pes |-> b.pes + d]

\* adjustedRatesFor with the toggle record as a parameter
AdjustedRates(type, a) ==
  IF type \notin DOMAIN base THEN NULL
  ELSE LET b == base[type]
           d == DeltaOf(type, a)
       IN [opt |-> b.opt + d,
           mod |-> b.mod + d,
           pes |-> b.pes + (d \div 2)]

adjustedRatesFor(type) == AdjustedRates(type, adj)

(* ------------------------------------------------------------------ *)
(* Derived inputs                                                     *)
(* ------------------------------------------------------------------ *)
modal == NumOrZero(modalStr)
months == NumOrZero(monthsStr)
investors == NumOrZero(investorsStr)

(* ------------------------------------------------------------------ *)
(* calcAll                                                            *)
(* ------------------------------------------------------------------ *)
\* [mutant] one compounding period too many
growOffByOne(m, rate, n) == [c |-> m, b |-> RateScale + rate, n |-> n + 1]

\* [mutant] the principal is capped before compounding
growCapped(m, rate, n) == [c |-> Min2(m, 2), b |-> RateScale + rate, n |-> n]

\* [mutant] a losing scenario is floored at the principal
growFloored(m, rate, n) == [c |-> m, b |-> RateScale + Max2(rate, 0), n |-> n]

\* grow = (rate) => modal * Math.pow(1 + rate, months), in factored form
grow(m, rate, n) == [c |-> m, b |-> RateScale + rate, n |-> n]

\* v / m for a factored value whose coefficient m divides
RatioOf(v, m) == [v EXCEPT !.c = v.c \div m]

\* [mutant] the root taken is always the twelfth
RootOfYearly(v, k) == [c |-> v.c, b |-> v.b, n |-> v.n, root |-> 12]

\* Math.pow(v, 1 / k): the k-th root of a factored value, kept in factored form
RootOf(v, k) == [c |-> v.c, b |-> v.b, n |-> v.n, root |-> k]

\* [mutant] the annualised rate is compounded over the duration
ResultOfAnnualOverDuration(r, m, n) ==
  [optV |-> grow(m, r.opt, n),
   modV |-> grow(m, r.mod, n),
   pesV |-> grow(m, r.pes, n),
   monthlyModeratePct |-> RootOf(RatioOf(grow(m, r.mod, n), m), n),
   annualModerate |-> [b |-> RateScale + r.mod, n |-> n]]

\* the ScenarioResult calcAll stores, for rates r
ResultOf(r, m, n) ==
  LET optV == grow(m, r.opt, n)
      modV == grow(m, r.mod, n)
      pesV == grow(m, r.pes, n)
  IN [optV |-> optV,
      modV |-> modV,
      pesV |-> pesV,
      \* (x - 1) * 100 of the root x
      monthlyModeratePct |-> RootOf(RatioOf(modV, m), n),
      \* (x - 1) * 100 of the power x = (b / RateScale)^n
      annualModerate |-> [b |-> RateScale + r.mod, n |-> 12]]

\* [mutant] the impact is capped at 10 %
ImpactOfCapped(inv, m) ==
  LET totalDana == BigMul(BigFromInt(inv), BigFromInt(m))
      uncapped  == BigMulSmall(totalDana, 8)
      cap       == BigMulSmall(trxHarianBEI, 10)
  IN [totalDana |-> totalDana,
      impactPct |-> [num |-> IF BigLess(cap, uncapped) THEN cap ELSE uncapped,
                     den |-> trxHarianBEI]]

\* the ImpactResult calcAll stores: impactPct = 8 * (totalDana / trxHarianBEI)
ImpactOf(inv, m) ==
  LET totalDana == BigMul(BigFromInt(inv), BigFromInt(m))
  IN [totalDana |-> totalDana,
      impactPct |-> [num |-> BigMulSmall(totalDana, 8), den |-> trxHarianBEI]]

\* the guard of calcAll: if (!r || !modal || !months) return
CalcGuard == adjustedRatesFor(investment) # NULL /\ modal # 0 /\ months # 0

\* [mutant] calcAll reads the toggles of the first render
calcAllIgnoresToggles ==
  IF ~CalcGuard
  THEN UNCHANGED <<result, impact>>
  ELSE /\ result' = ResultOf(AdjustedRates(investment, AdjOff), modal, months)
       /\ impact' = ImpactOf(investors, modal)

\* [mutant] the pooled funds are added to those of the previous impact
calcAllAccumulates ==
  IF ~CalcGuard
  THEN UNCHANGED <<result, impact>>
  ELSE /\ result' = ResultOf(adjustedRatesFor(investment), modal, months)
       /\ impact' = IF impact = NULL THEN ImpactOf(investors, modal)
                    ELSE [ImpactOf(investors, modal) EXCEPT
                            !.totalDana = BigAdd(@, impact.totalDana)]

\* [mutant] a failed guard clears what was stored
calcAllClearsOnFail ==
  IF ~CalcGuard
  THEN result' = NULL /\ impact' = NULL
  ELSE /\ result' = ResultOf(adjustedRatesFor(investment), modal, months)
       /\ impact' = ImpactOf(investors, modal)

\* calcAll, as the effect on result and impact
calcAll ==
  IF ~CalcGuard
  THEN UNCHANGED <<result, impact>>
  ELSE /\ result' = ResultOf(adjustedRatesFor(investment), modal, months)
       /\ impact' = ImpactOf(investors, modal)

(* ------------------------------------------------------------------ *)
(* corrPoints: the points of the correlation chart                    *)
(* ------------------------------------------------------------------ *)
\* the i-th point for investor count inv, fraction i / 10 and principal m:
\* x = inv * frac, y = Math.max(0, 8 * (x * m / trxHarianBEI)), as exact
\* quotients; the quotient y is never negative, so Math.max returns it
corrPoint(m, inv, i) ==
  LET xNum == BigMulSmall(BigFromInt(inv), i)
  IN [x |-> [num |-> xNum, den |-> 10],
      y |-> [num |-> BigMulSmall(BigMul(xNum, BigFromInt(m)), 8),
             den |-> BigMulSmall(trxHarianBEI, 10)]]

RECURSIVE pushPoints(_, _, _, _)
\* the loop for (i = 1; i <= n; i++) pts.push(...), continued from pts
pushPoints(m, inv, n, pts) ==
  IF Len(pts) >= n THEN pts
  ELSE pushPoints(m, inv, n, Append(pts, corrPoint(m, inv, Len(pts) + 1)))

\* [mutant] the loop stops before the 100 % sample
corrPointsNine(m, inv) ==
  IF m = 0 \/ inv = 0 THEN <<>> ELSE pushPoints(m, inv, 9, <<>>)

\* [mutant] the points are built without looking at the inputs
corrPointsUnguarded(m, inv) == pushPoints(m, inv, 10, <<>>)

\* the memoised corrPoints for principal m and investor count inv
corrPointsOf(m, inv) ==
  IF m = 0 \/ inv = 0 THEN <<>> ELSE pushPoints(m, inv, 10, <<>>)

corrPoints == corrPointsOf(modal, investors)

(* ------------------------------------------------------------------ *)
(* Inflation feedback: pdb in trillion rupiah, porsiProduktif, k and  *)
(* the percentages in hundredths                                      *)
(* ------------------------------------------------------------------ *)
\* k = 0.05, the koefisien sensitivitas
kSens == 5

\* inflasiAwal = 2.65
inflasiAwal == 265

\* 1_000_000_000_000
Triliun == BigMul(BigFromInt(1000000), BigFromInt(1000000))

Abs(x) == IF x < 0 THEN -x ELSE x

\* the quotient 0
Nol == [neg |-> FALSE, num |-> <<>>, den |-> <<1>>]

\* a < b for signed quotients [neg, num, den] with den > 0 and neg only where
\* num is not zero
QLess(a, b) ==
  IF a.neg /\ ~b.neg THEN TRUE
  ELSE IF ~a.neg /\ b.neg THEN FALSE
  ELSE IF ~a.neg THEN BigLess(BigMul(a.num, b.den), BigMul(b.num, a.den))
  ELSE BigLess(BigMul(b.num, a.den), BigMul(a.num, b.den))

\* totalDana = modalValue * investorCount
totalDanaOf(m, inv) == BigMul(BigFromInt(m), BigFromInt(inv))

\* [mutant] only a zero PDB is treated as degenerate
ratioDanaPdbZeroOnly(m, inv, g) ==
  IF g # 0
  THEN [neg |-> g < 0 /\ totalDanaOf(m, inv) # <<>>,
        num |-> totalDanaOf(m, inv),
        den |-> BigMulSmall(Triliun, Abs(g))]
  ELSE Nol

\* ratioDanaPdb = pdb > 0 ? totalDanaTriliun / pdb : 0
ratioDanaPdbOf(m, inv, g) ==
  IF g > 0
  THEN [neg |-> FALSE,
        num |-> totalDanaOf(m, inv),
        den |-> BigMulSmall(Triliun, g)]
  ELSE Nol

\* kSens * (1 - p) * ratio * 100 for a share p in hundredths
tambahanOfRatio(ratio, p) ==
  LET num == BigMulSmall(ratio.num, kSens * Abs(100 - p))
  IN [neg |-> num # <<>> /\ (ratio.neg # (100 - p < 0)),
      num |-> num,
      den |-> BigMulSmall(ratio.den, 100)]

\* [mutant] the share is not read: the default 0.7 is used
tambahanInflasiFixedShare(m, inv, g, p) ==
  tambahanOfRatio(ratioDanaPdbOf(m, inv, g), 70)

\* [mutant] the share is clamped to 0..1 first
tambahanInflasiClamped(m, inv, g, p) ==
  tambahanOfRatio(ratioDanaPdbOf(m, inv, g), clamp(p, 0, 100))

\* tambahanInflasi = k * (1 - porsiProduktif) * ratioDanaPdb * 100
tambahanInflasiOf(m, inv, g, p) ==
  tambahanOfRatio(ratioDanaPdbOf(m, inv, g), p)

\* inflasiSimulasi = inflasiAwal + tambahanInflasi
inflasiSimulasiOf(m, inv, g, p) ==
  [awal |-> inflasiAwal, tambahan |-> tambahanInflasiOf(m, inv, g, p)]

\* the values of the current render
ratioDanaPdb == ratioDanaPdbOf(modal, investors, pdb)
tambahanInflasi == tambahanInflasiOf(modal, investors, pdb, porsiProduktif)
inflasiSimulasi == inflasiSimulasiOf(modal, investors, pdb, porsiProduktif)

(* ------------------------------------------------------------------ *)
(* Validation effect                                                  *)
(* ------------------------------------------------------------------ *)
\* [mutant] the longest duration is taken for too long
ValidateBelow600(st, nm, us, inv, mStr, moStr, ivStr) ==
  LET len == Len(trim(nm))
      u   == NumOrZero(us)
      m   == NumOrZero(mStr)
      mo  == NumOrZero(moStr)
      iv  == NumOrZero(ivStr)
  IN [nama       |-> st >= 2 /\ (len < 2 \/ len > 30),
      usia       |-> st >= 2 /\ us # <<>> /\ (u < 10 \/ u > 100),
      investment |-> st >= 3 /\ inv = "",
      modal      |-> st >= 4 /\ m = 0,
      months     |-> st >= 4 /\ (mo = 0 \/ mo < 1 \/ mo >= 600),
      investors  |-> st >= 4 /\ ivStr # <<>> /\ iv = 0]

\* the errors object the effect sets for a given state
Validate(st, nm, us, inv, mStr, moStr, ivStr) ==
  LET len == Len(trim(nm))
      u   == NumOrZero(us)
      m   == NumOrZero(mStr)
      mo  == NumOrZero(moStr)
      iv  == NumOrZero(ivStr)
  IN [nama       |-> st >= 2 /\ (len < 2 \/ len > 30),
      usia       |-> st >= 2 /\ us # <<>> /\ (u < 10 \/ u > 100),
      investment |-> st >= 3 /\ inv = "",
      modal      |-> st >= 4 /\ m = 0,
      months     |-> st >= 4 /\ (mo = 0 \/ mo < 1 \/ mo > 600),
      investors  |-> st >= 4 /\ ivStr # <<>> /\ iv = 0]

\* the effect has run on the state an action leaves
Revalidate ==
  errors' = Validate(step', nama', usia', investment', modalStr', monthsStr',
                     investorsStr')


(* ------------------------------------------------------------------ *)
(* What the user types and selects                                    *)
(* ------------------------------------------------------------------ *)
LongNama == [i \in 1..31 |-> "a"]

NamaInputs == {<<"a">>, <<" ", "a", "b", " ">>, LongNama}

UsiaInputs == {<<"9">>, <<"1", "7", "a">>}

PekerjaanInputs == {<<"p">>}

\* the options of the instrument select the user picks among
InvestmentInputs == {"", "saham", "deposito"}

ModalInputs == {<<>>, <<"R", "p", "2">>}

MonthsInputs == {<<>>, <<"1">>, <<"6", "0", "1">>}

InvestorsInputs == {<<>>, <<"0">>, <<"3">>}

\* GDP in trillion rupiah, as typed into the number field
PdbInputs == {0}

\* productive share in hundredths, as typed into the number field
PorsiInputs == {100}

(* ------------------------------------------------------------------ *)
(* Initial state: the useState defaults                               *)
(* ------------------------------------------------------------------ *)
Init ==
  /\ step = 1
  /\ nama = <<>>
  /\ usia = <<>>
  /\ pekerjaan = <<>>
  /\ investment = ""
  /\ modalStr = <<>>
  /\ monthsStr = <<>>
  /\ investorsStr = <<"1", "8", "0", "0", "0", "0", "0", "0">>
  /\ adj = AdjOff
  /\ result = NULL
  /\ impact = NULL
  /\ errors = Validate(1, <<>>, <<>>, "", <<>>, <<>>,
                       <<"1", "8", "0", "0", "0", "0", "0", "0">>)
  /\ pdb = 20000
  /\ porsiProduktif = 70
  /\ lastOp = "none"
  /\ edits = 0

(* ------------------------------------------------------------------ *)
(* Handlers                                                           *)
(* ------------------------------------------------------------------ *)
profil == <<nama, usia, pekerjaan>>
angka == <<modalStr, monthsStr, investorsStr>>
inflasi == <<pdb, porsiProduktif>>

\* step 1, "Yuk Investasi!": next() with step = 1
NextIntro ==
  /\ step = 1
  /\ step' = 2
  /\ UNCHANGED <<profil, investment, angka, adj, result, impact, inflasi>>
  /\ lastOp' = "none"
  /\ Revalidate

\* back(): setStep(s => Math.max(1, s - 1)); the buttons of steps 2, 3 and 4
Back ==
  /\ step \in {2, 3, 4}
  /\ step' = Max2(1, step - 1)
  /\ UNCHANGED <<profil, investment, angka, adj, result, impact, inflasi>>
  /\ lastOp' = "none"
  /\ Revalidate

SetNama ==
  /\ step = 2
  /\ \E v \in NamaInputs : nama' = v
  /\ UNCHANGED <<step, usia, pekerjaan, investment, angka, adj, result, impact,
                 inflasi>>
  /\ lastOp' = "none"
  /\ Revalidate

SetUsia ==
  /\ step = 2
  /\ \E v \in UsiaInputs : usia' = onlyDigits(v)
  /\ UNCHANGED <<step, nama, pekerjaan, investment, angka, adj, result, impact,
                 inflasi>>
  /\ lastOp' = "none"
  /\ Revalidate

SetPekerjaan ==
  /\ step = 2
  /\ \E v \in PekerjaanInputs : pekerjaan' = v
  /\ UNCHANGED <<step, nama, usia, investment, angka, adj, result, impact,
                 inflasi>>
  /\ lastOp' = "none"
  /\ Revalidate

\* [mutant] "Lanjut" of step 2 moves on whatever the errors are
NextProfilUngated ==
  /\ step = 2
  /\ step' = 3
  /\ UNCHANGED <<profil, investment, angka, adj, result, impact, inflasi>>
  /\ lastOp' = "none"
  /\ Revalidate

\* step 2, "Lanjut": disabled on errors.nama, errors.usia or empty nama; next()
NextProfil ==
  /\ step = 2
  /\ ~(errors.nama \/ errors.usia \/ nama = <<>>)
  /\ ~(errors.nama \/ errors.usia)
  /\ step' = 3
  /\ UNCHANGED <<profil, investment, angka, adj, result, impact, inflasi>>
  /\ lastOp' = "none"
  /\ Revalidate

SetInvestment ==
  /\ step = 3
  /\ \E v \in InvestmentInputs : investment' = v
  /\ UNCHANGED <<step, profil, angka, adj, result, impact, inflasi>>
  /\ lastOp' = "none"
  /\ Revalidate

\* step 3, "Lanjut": disabled on empty investment; next()
NextInstrumen ==
  /\ step = 3
  /\ investment # ""
  /\ ~errors.investment
  /\ step' = 4
  /\ UNCHANGED <<profil, investment, angka, adj, result, impact, inflasi>>
  /\ lastOp' = "none"
  /\ Revalidate

SetModalStr ==
  /\ step = 4
  /\ \E v \in ModalInputs : modalStr' = onlyDigits(v)
  /\ UNCHANGED <<step, profil, investment, monthsStr, investorsStr, adj, result,
                 impact, inflasi>>
  /\ lastOp' = "none"
  /\ Revalidate

\* a principal preset button leaving the principal at v
PresetModal(v) ==
  /\ step = 4
  /\ modalStr' = toString(v)
  /\ UNCHANGED <<step, profil, investment, monthsStr, investorsStr, adj, result,
                 impact, inflasi>>
  /\ lastOp' = "none"
  /\ Revalidate

\* "+ 500 rb": setModalStr((modal ? modal : 0 + 500000).toString())
Preset500rb == PresetModal(IF modal # 0 THEN modal ELSE 0 + 500000)

\* "+ 1 jt": setModalStr((modal + 1000000).toString())
Preset1jt == PresetModal(modal + 1000000)

\* "+ 5 jt": setModalStr((modal + 5000000).toString())
Preset5jt == PresetModal(modal + 5000000)

\* the duration field: onlyDigits(clamp(Number(onlyDigits(v) || 0), 0, 600))
SetMonthsStr ==
  /\ step = 4
  /\ \E v \in MonthsInputs :
       monthsStr' = onlyDigits(toString(clamp(NumOrZero(v), 0, 600)))
  /\ UNCHANGED <<step, profil, investment, modalStr, investorsStr, adj, result,
                 impact, inflasi>>
  /\ lastOp' = "none"
  /\ Revalidate

\* the duration presets "6 bln", "12 bln", "36 bln"
PresetMonths ==
  /\ step = 4
  /\ \E v \in {<<"6">>, <<"1", "2">>, <<"3", "6">>} : monthsStr' = v
  /\ UNCHANGED <<step, profil, investment, modalStr, investorsStr, adj, result,
                 impact, inflasi>>
  /\ lastOp' = "none"
  /\ Revalidate

\* [mutant] the investor field is also there on the results screen
SetInvestorsStrOnResults ==
  /\ step \in {4, 5}
  /\ \E v \in InvestorsInputs : investorsStr' = onlyDigits(v)
  /\ UNCHANGED <<step, profil, investment, modalStr, monthsStr, adj, result,
                 impact, inflasi>>
  /\ lastOp' = "none"
  /\ Revalidate

SetInvestorsStr ==
  /\ step = 4
  /\ \E v \in InvestorsInputs : investorsStr' = onlyDigits(v)
  /\ UNCHANGED <<step, profil, investment, modalStr, monthsStr, adj, result,
                 impact, inflasi>>
  /\ lastOp' = "none"
  /\ Revalidate

\* [mutant] the button is neither disabled nor stopped by the errors
LihatHasilUngated ==
  /\ step = 4
  /\ calcAll
  /\ step' = 5
  /\ UNCHANGED <<profil, investment, angka, adj, inflasi>>
  /\ lastOp' = IF CalcGuard THEN "calc" ELSE "skip"
  /\ Revalidate

\* the "Lihat Hasil" button is there, is not disabled, and next() does not
\* return on an error of step 4
LihatHasilAllowed ==
  /\ step = 4
  /\ ~(modal = 0 \/ months = 0)
  /\ ~(errors.modal \/ errors.months \/ errors.investors)

\* step 4, "Lihat Hasil": disabled on !modal || !months; returns on an error of
\* this step; otherwise calcAll() and setStep(5)
LihatHasil ==
  /\ LihatHasilAllowed
  /\ calcAll
  /\ step' = 5
  /\ UNCHANGED <<profil, investment, angka, adj, inflasi>>
  /\ lastOp' = IF CalcGuard THEN "calc" ELSE "skip"
  /\ Revalidate

\* step 5 is rendered only when result && impact
Step5Shown == step = 5 /\ result # NULL /\ impact # NULL

\* [mutant] a pill switches the other two off
ToggleExclusive(k) ==
  /\ Step5Shown
  /\ adj' = [t \in DOMAIN adj |-> IF t = k THEN ~adj[t] ELSE FALSE]
  /\ UNCHANGED <<step, profil, investment, angka, result, impact, inflasi>>
  /\ lastOp' = "none"
  /\ Revalidate

\* a what-if pill: setAdj(a => ({...a, [k]: !a[k]}))
Toggle(k) ==
  /\ Step5Shown
  /\ adj' = [adj EXCEPT ![k] = ~adj[k]]
  /\ UNCHANGED <<step, profil, investment, angka, result, impact, inflasi>>
  /\ lastOp' = "none"
  /\ Revalidate

ToggleInflasiUp == Toggle("inflasiUp")

ToggleBiDown == Toggle("biDown")

ToggleIhsgUp == Toggle("ihsgUp")

\* the what-if "Reset" pill
ResetAdj ==
  /\ Step5Shown
  /\ adj' = AdjOff
  /\ UNCHANGED <<step, profil, investment, angka, result, impact, inflasi>>
  /\ lastOp' = "none"
  /\ Revalidate

\* "Terapkan ke hasil": onClick={calcAll}
Terapkan ==
  /\ Step5Shown
  /\ calcAll
  /\ UNCHANGED <<step, profil, investment, angka, adj, inflasi>>
  /\ lastOp' = IF CalcGuard THEN "calc" ELSE "skip"
  /\ Revalidate

\* the PDB field: setPdb(Number(e.target.value))
SetPdbTo(v) ==
  /\ Step5Shown
  /\ pdb' = v
  /\ UNCHANGED <<step, profil, investment, angka, adj, result, impact,
                 porsiProduktif>>
  /\ lastOp' = "none"
  /\ Revalidate

SetPdb == \E v \in PdbInputs : SetPdbTo(v)

\* the productive-share field: setPorsiProduktif(Number(e.target.value))
SetPorsiProduktifTo(v) ==
  /\ Step5Shown
  /\ porsiProduktif' = v
  /\ UNCHANGED <<step, profil, investment, angka, adj, result, impact, pdb>>
  /\ lastOp' = "none"
  /\ Revalidate

SetPorsiProduktif == \E v \in PorsiInputs : SetPorsiProduktifTo(v)

\* "Kembali (ubah angka)": setStep(4)
Kembali ==
  /\ Step5Shown
  /\ step' = 4
  /\ UNCHANGED <<profil, investment, angka, adj, result, impact, inflasi>>
  /\ lastOp' = "none"
  /\ Revalidate

(* ------------------------------------------------------------------ *)
(* The report file and the results screen                             *)
(* ------------------------------------------------------------------ *)
\* fmtRp(n): "Rp " + Math.round(Number(n)).toLocaleString("id-ID"); the text is
\* kept as the amount it is made from, under the name of its formatter
fmtRp(n) == [fmt |-> "Rp", of |-> n]

\* pct(x): x.toFixed(2) + " %", kept as the quantity it is made from
pct(x) == [fmt |-> "%", of |-> x]

\* niceYears(months): "m bulan", and from 12 on "(≈ th tahun[ sisa bulan])"
niceYears(mo) ==
  IF mo < 12 THEN [bulan |-> mo]
  ELSE [bulan |-> mo, tahun |-> mo \div 12, sisa |-> mo % 12]

\* x || 0 on a big natural
BigOrZero(x) == IF x = <<>> THEN BigFromInt(0) ELSE x

\* x || 0 on a quotient: the number 0 when the quotient is 0
QuotOrZero(q) == IF q.num = <<>> THEN [num |-> <<>>, den |-> <<1>>] ELSE q

\* [mutant] the report recomputes the scenarios from the pills as they stand
ReportOfRecomputed ==
  LET r == ResultOf(adjustedRatesFor(investment), modal, months) IN
  [ modal      |-> fmtRp(modal),
    durasi     |-> niceYears(months),
    optimis    |-> fmtRp(r.optV),
    moderat    |-> fmtRp(r.modV),
    pesimis    |-> fmtRp(r.pesV),
    bulanan    |-> pct(r.monthlyModeratePct),
    annualized |-> pct(r.annualModerate),
    whatIf     |-> [t \in DOMAIN adj |-> IF adj[t] THEN "ON" ELSE "OFF"],
    investor   |-> investors,
    totalDana  |-> fmtRp(IF impact = NULL THEN BigFromInt(0)
                         ELSE BigOrZero(impact.totalDana)),
    impactPct  |-> pct(IF impact = NULL THEN QuotOrZero([num |-> <<>>])
                       ELSE QuotOrZero(impact.impactPct)) ]

\* the lines of downloadTXT() that carry a value of the session
ReportOf ==
  [ modal      |-> fmtRp(modal),
    durasi     |-> niceYears(months),
    optimis    |-> fmtRp(result.optV),
    moderat    |-> fmtRp(result.modV),
    pesimis    |-> fmtRp(result.pesV),
    bulanan    |-> pct(result.monthlyModeratePct),
    annualized |-> pct(result.annualModerate),
    whatIf     |-> [t \in DOMAIN adj |-> IF adj[t] THEN "ON" ELSE "OFF"],
    investor   |-> investors,
    totalDana  |-> fmtRp(IF impact = NULL THEN BigFromInt(0)
                         ELSE BigOrZero(impact.totalDana)),
    impactPct  |-> pct(IF impact = NULL THEN QuotOrZero([num |-> <<>>])
                       ELSE QuotOrZero(impact.impactPct)) ]

\* the same quantities as step 5 renders them
ScreenOf ==
  [ modal      |-> fmtRp(modal),
    durasi     |-> niceYears(months),
    optimis    |-> fmtRp(result.optV),
    moderat    |-> fmtRp(result.modV),
    pesimis    |-> fmtRp(result.pesV),
    bulanan    |-> pct(result.monthlyModeratePct),
    annualized |-> pct(result.annualModerate),
    pills      |-> [t \in DOMAIN adj |-> IF adj[t] THEN "ON" ELSE "OFF"],
    totalDana  |-> fmtRp(impact.totalDana),
    impactPct  |-> pct(impact.impactPct) ]

\* "Download TXT": if (!result) return; otherwise the file is written and no
\* state is set
DownloadTXT ==
  /\ Step5Shown
  /\ result # NULL
  /\ UNCHANGED <<step, profil, investment, angka, adj, result, impact, inflasi>>
  /\ lastOp' = "download"
  /\ Revalidate

\* [mutant] the reset leaves the impact of the last session
resetAllKeepsImpact ==
  /\ Step5Shown
  /\ step' = 1
  /\ nama' = <<>>
  /\ usia' = <<>>
  /\ pekerjaan' = <<>>
  /\ investment' = ""
  /\ modalStr' = <<>>
  /\ monthsStr' = <<>>
  /\ investorsStr' = <<"1", "8", "0", "0", "0", "0", "0", "0">>
  /\ adj' = AdjOff
  /\ result' = NULL
  /\ UNCHANGED impact
  /\ UNCHANGED inflasi
  /\ lastOp' = "none"
  /\ Revalidate

\* "Mulai Lagi": resetAll()
resetAll ==
  /\ Step5Shown
  /\ step' = 1
  /\ nama' = <<>>
  /\ usia' = <<>>
  /\ pekerjaan' = <<>>
  /\ investment' = ""
  /\ modalStr' = <<>>
  /\ monthsStr' = <<>>
  /\ investorsStr' = <<"1", "8", "0", "0", "0", "0", "0", "0">>
  /\ adj' = AdjOff
  /\ result' = NULL
  /\ impact' = NULL
  /\ UNCHANGED inflasi
  /\ lastOp' = "none"
  /\ Revalidate

(* ------------------------------------------------------------------ *)
(* The wizard: every handler, at most MaxEdits inputs per session     *)
(* ------------------------------------------------------------------ *)
\* one more input of the session
Input == edits < MaxEdits /\ edits' = edits + 1

Next ==
  \/ NextIntro /\ UNCHANGED edits
  \/ Back /\ UNCHANGED edits
  \/ Input /\ SetNama
  \/ Input /\ SetUsia
  \/ Input /\ SetPekerjaan
  \/ NextProfil /\ UNCHANGED edits
  \/ Input /\ SetInvestment
  \/ NextInstrumen /\ UNCHANGED edits
  \/ Input /\ SetModalStr
  \/ Input /\ Preset500rb
  \/ Input /\ Preset1jt
  \/ Input /\ Preset5jt
  \/ Input /\ SetMonthsStr
  \/ Input /\ PresetMonths
  \/ Input /\ SetInvestorsStr
  \/ LihatHasil /\ UNCHANGED edits
  \/ Input /\ ToggleInflasiUp
  \/ Input /\ ToggleBiDown
  \/ Input /\ ToggleIhsgUp
  \/ Input /\ ResetAdj
  \/ Terapkan /\ UNCHANGED edits
  \/ Input /\ SetPdb
  \/ Input /\ SetPorsiProduktif
  \/ Kembali /\ UNCHANGED edits
  \/ resetAll /\ edits' = 0

Spec == Init /\ [][Next]_vars

(* ------------------------------------------------------------------ *)
(* One session on fixed inputs: the numbers are typed before the      *)
(* first "Lihat Hasil" and only the what-if pills are used afterwards *)
(* ------------------------------------------------------------------ *)
CalcModalInputs ==
  {<<"1">>, <<"2">>, <<"3">>, <<"1", "0", "0", "0", "0", "0", "0">>,
   <<"2", "0", "0", "0", "0", "0", "0", "0">>}

CalcMonthsInputs == {<<"1">>, <<"2">>, <<"1", "2">>, <<"6", "0", "0">>}

CalcInvestorsInputs == {<<>>, <<"3">>, <<"1", "8", "0", "0", "0", "0", "0", "0">>}

InitCalc ==
  /\ step = 4
  /\ nama = <<" ", "a", "b", " ">>
  /\ usia = <<"1", "7">>
  /\ pekerjaan = <<>>
  /\ investment \in Instruments
  /\ modalStr \in CalcModalInputs
  /\ monthsStr \in CalcMonthsInputs
  /\ investorsStr \in CalcInvestorsInputs
  /\ adj = AdjOff
  /\ result = NULL
  /\ impact = NULL
  /\ errors = Validate(step, nama, usia, investment, modalStr, monthsStr,
                       investorsStr)
  /\ pdb = 20000
  /\ porsiProduktif = 70
  /\ lastOp = "none"
  /\ edits = 0

NextCalc ==
  \/ LihatHasil /\ UNCHANGED edits
  \/ ToggleInflasiUp /\ UNCHANGED edits
  \/ ToggleBiDown /\ UNCHANGED edits
  \/ ToggleIhsgUp /\ UNCHANGED edits
  \/ ResetAdj /\ UNCHANGED edits
  \/ Terapkan /\ UNCHANGED edits
  \/ Kembali /\ UNCHANGED edits

SpecCalc == InitCalc /\ [][NextCalc]_vars


(* ------------------------------------------------------------------ *)
(* calcAll called on any state of the wizard                          *)
(* ------------------------------------------------------------------ *)
\* calcAll() itself, with none of the gating of the buttons that call it
CalcAllCall ==
  /\ calcAll
  /\ UNCHANGED <<step, profil, investment, angka, adj, inflasi, edits>>
  /\ lastOp' = IF CalcGuard THEN "calc" ELSE "skip"
  /\ Revalidate

SpecUnit == Init /\ [][Next \/ CalcAllCall]_vars

(* ------------------------------------------------------------------ *)
(* The results screen with its inflation inputs: the numbers are      *)
(* typed, "Lihat Hasil" is clicked, PDB and productive share are      *)
(* edited, and "Kembali" leads back to principal and investor count   *)
(* ------------------------------------------------------------------ *)
DampakModalInputs ==
  {<<"1", "0", "0", "0", "0", "0", "0">>,
   <<"2", "0", "0", "0", "0", "0", "0", "0">>}

DampakInvestorsInputs == {<<"3">>, <<"1", "8", "0", "0", "0", "0", "0", "0">>}

\* as typed into the PDB field: cleared, negative, small, the default
DampakPdbInputs == {0, -5, 1, 20000}

\* as typed into the share field, in hundredths: 0, 0.5, 1, 2 and -1
DampakPorsiInputs == {0, 50, 100, 200, -100}

InitDampak ==
  /\ step = 4
  /\ nama = <<" ", "a", "b", " ">>
  /\ usia = <<"1", "7">>
  /\ pekerjaan = <<>>
  /\ investment = "saham"
  /\ modalStr \in DampakModalInputs
  /\ monthsStr = <<"1", "2">>
  /\ investorsStr \in DampakInvestorsInputs
  /\ adj = AdjOff
  /\ result = NULL
  /\ impact = NULL
  /\ errors = Validate(step, nama, usia, investment, modalStr, monthsStr,
                       investorsStr)
  /\ pdb = 20000
  /\ porsiProduktif = 70
  /\ lastOp = "none"
  /\ edits = 0

NextDampak ==
  \/ LihatHasil /\ UNCHANGED edits
  \/ (\E v \in DampakPdbInputs : SetPdbTo(v)) /\ UNCHANGED edits
  \/ (\E v \in DampakPorsiInputs : SetPorsiProduktifTo(v)) /\ UNCHANGED edits
  \/ Kembali /\ UNCHANGED edits
  \/ SetModalStr /\ UNCHANGED edits
  \/ SetInvestorsStr /\ UNCHANGED edits

SpecDampak == InitDampak /\ [][NextDampak]_vars

(* ------------------------------------------------------------------ *)
(* The ends of the input ranges: the smallest and the largest         *)
(* principal and duration, the duration field, and the report         *)
(* ------------------------------------------------------------------ *)
\* the largest principal is the largest power of ten of the integers at hand
LaporanModalInputs ==
  {<<"1">>, <<"1", "0", "0", "0", "0", "0", "0", "0", "0", "0">>}

LaporanMonthsInputs == {<<"1">>, <<"6", "0", "0">>}

LaporanInvestorsInputs == {<<>>, <<"1", "8", "0", "0", "0", "0", "0", "0">>}

InitLaporan ==
  /\ step = 4
  /\ nama = <<" ", "a", "b", " ">>
  /\ usia = <<"1", "7">>
  /\ pekerjaan = <<>>
  /\ investment \in Instruments
  /\ modalStr \in LaporanModalInputs
  /\ monthsStr \in LaporanMonthsInputs
  /\ investorsStr \in LaporanInvestorsInputs
  /\ adj = AdjOff
  /\ result = NULL
  /\ impact = NULL
  /\ errors = Validate(step, nama, usia, investment, modalStr, monthsStr,
                       investorsStr)
  /\ pdb = 20000
  /\ porsiProduktif = 70
  /\ lastOp = "none"
  /\ edits = 0

NextLaporan ==
  \/ LihatHasil /\ UNCHANGED edits
  \/ SetMonthsStr /\ UNCHANGED edits
  \/ ToggleInflasiUp /\ UNCHANGED edits
  \/ ToggleBiDown /\ UNCHANGED edits
  \/ ToggleIhsgUp /\ UNCHANGED edits
  \/ Terapkan /\ UNCHANGED edits
  \/ DownloadTXT /\ UNCHANGED edits
  \/ Kembali /\ UNCHANGED edits

SpecLaporan == InitLaporan /\ [][NextLaporan]_vars

(* ------------------------------------------------------------------ *)
(* Properties                                                         *)
(* ------------------------------------------------------------------ *)
\* the numerator of a factored value over RateScale^n
Expand(v) == BigPowSmall(BigFromInt(v.c), v.b, v.n)

\* the ScenarioResult of the current instrument, principal and duration under
\* the toggles a; NULL where calcAll's guard fails
ProjectionOf(type, a, m, n) ==
  IF AdjustedRates(type, a) = NULL \/ m = 0 \/ n = 0 THEN NULL
  ELSE ResultOf(AdjustedRates(type, a), m, n)

Projection(a) == ProjectionOf(investment, a, modal, months)

\* the toggle record with only k switched on
Only(k) == [AdjOff EXCEPT ![k] = TRUE]

Toggles == {"inflasiUp", "biDown", "ihsgUp"}

\* the moderate-rate delta of the current instrument under the toggles a
DeltaMod(a) == AdjustedRates(investment, a).mod - base[investment].mod

\* C1 (as stated): whenever the results screen is showing, the stored result is
\* the projection of the current inputs under the current toggles.
C1_ResultUnderCurrentToggles == Step5Shown => result = Projection(adj)

\* C1 (amended): whenever the results screen is showing, the stored result is
\* the projection of the current instrument, principal and duration under the
\* toggles of the last calcAll: under the current toggles right after "Lihat
\* Hasil" or "Terapkan ke hasil", under some earlier setting after a pill.
C1_ResultUnderAppliedToggles ==
  Step5Shown =>
    /\ \E a \in AdjAll : result = Projection(a)
    /\ lastOp = "calc" => result = Projection(adj)

\* C1 witness: a pill was flipped after the last calcAll and the screen shows
\* the result of the earlier setting.
C1_Witness == Step5Shown /\ lastOp # "calc" /\ result # Projection(adj)

\* C2 (as stated): whenever calcAll has computed an ImpactResult, the investor
\* count is positive.
C2_InvestorsPositive == lastOp = "calc" => investors > 0

\* C3: whenever calcAll has computed, and whenever step 5 is reached, the
\* instrument is one of the five, the principal is positive and the duration is
\* in 1..600.
C3_ValidScenarioInput ==
  (lastOp = "calc" \/ step = 5) =>
    /\ investment \in Instruments
    /\ modal > 0
    /\ months \in 1..600

\* C3 witness: a duration typed above the range was clamped to 600 and computed.
C3_Witness == lastOp = "calc" /\ step = 5 /\ months = 600

C5_OffIsBase ==
  (adj = AdjOff /\ investment \in Instruments) =>
    adjustedRatesFor(investment) = base[investment]

\* C5 witness: the toggles are off again after a setting with a toggle on had
\* been applied to the result.
C5_Witness ==
  Step5Shown /\ adj = AdjOff /\ lastOp # "calc" /\ result # Projection(adj)

\* C6: for the current instrument and toggles the pessimistic delta is half
\* the moderate delta and the optimistic delta equals the moderate delta.
C6_PesHalfOfMod ==
  investment \in Instruments =>
    LET r == adjustedRatesFor(investment)
        b == base[investment]
    IN /\ 2 * (r.pes - b.pes) = r.mod - b.mod
       /\ r.opt - b.opt = r.mod - b.mod

\* C6 witness: a result was computed under a non-zero delta.
C6_Witness ==
  /\ lastOp = "calc"
  /\ investment = "deposito"
  /\ adj = Only("inflasiUp")
  /\ adjustedRatesFor(investment).pes = base[investment].pes + 25

\* C7: the moderate delta under the current toggles is the sum of the deltas
\* of the active toggles taken alone, and ihsgUp alone leaves obligasi and
\* deposito at their base rates.
C7_DeltasAdd ==
  investment \in Instruments =>
    /\ DeltaMod(adj) =
         (IF adj.inflasiUp THEN DeltaMod(Only("inflasiUp")) ELSE 0)
         + (IF adj.biDown THEN DeltaMod(Only("biDown")) ELSE 0)
         + (IF adj.ihsgUp THEN DeltaMod(Only("ihsgUp")) ELSE 0)
    /\ investment \in {"obligasi", "deposito"} =>
         AdjustedRates(investment, Only("ihsgUp")) = base[investment]

\* C7 witness: all three toggles are on for an instrument with an entry under
\* each of them, and the result was computed under them.
C7_Witness ==
  /\ lastOp = "calc"
  /\ investment = "emas"
  /\ \A k \in Toggles : adj[k]
  /\ DeltaMod(adj) = 70

\* C8: a calcAll that computes leaves the projection and the impact of the
\* inputs it ran on, whatever was stored before; a second calcAll right after
\* it changes neither.
C8_CalcIsFunctionOfInputs ==
  [][lastOp' = "calc" =>
       /\ result' = ProjectionOf(investment', adj', NumOrZero(modalStr'),
                                 NumOrZero(monthsStr'))
       /\ impact' = ImpactOf(NumOrZero(investorsStr'), NumOrZero(modalStr'))
       /\ lastOp = "calc" => (result' = result /\ impact' = impact)]_vars

\* C8 witness: calcAll has computed again over an earlier result, under
\* toggles that were switched on the results screen.
C8_Witness == lastOp = "calc" /\ Step5Shown /\ adj # AdjOff

\* C9: for a duration of one month each scenario value is principal times
\* (1 + adjusted rate).
C9_OneMonth ==
  (lastOp = "calc" /\ months = 1) =>
    LET r == adjustedRatesFor(investment)
        m == BigFromInt(modal)
    IN /\ result.optV.n = 1 /\ result.modV.n = 1 /\ result.pesV.n = 1
       /\ Expand(result.optV) = BigMulSmall(m, RateScale + r.opt)
       /\ Expand(result.modV) = BigMulSmall(m, RateScale + r.mod)
       /\ Expand(result.pesV) = BigMulSmall(m, RateScale + r.pes)

\* C9 witness: a one-month result under a negative pessimistic rate.
C9_Witness ==
  /\ lastOp = "calc"
  /\ months = 1
  /\ modal = 1000000
  /\ adjustedRatesFor(investment).pes < 0

\* the three scenario values of a result
ValuesOf(res) == <<res.optV, res.modV, res.pesV>>

\* C10: each scenario value is strictly increasing in the principal: a smaller
\* principal gives a smaller value and a larger one a larger value, for the
\* same instrument, toggles and duration.
C10_IncreasingInPrincipal ==
  (lastOp = "calc" /\ months <= MaxEvalMonths) =>
    \A p \in 1..MaxPrincipal : \A i \in 1..3 :
      LET other == ValuesOf(ResultOf(adjustedRatesFor(investment), p, months))[i]
          mine  == ValuesOf(result)[i]
      IN /\ p < modal => BigLess(Expand(other), Expand(mine))
         /\ p > modal => BigLess(Expand(mine), Expand(other))

\* C10 witness: a twelve-month result for principal 2 under a negative rate.
C10_Witness ==
  /\ lastOp = "calc"
  /\ months = 12
  /\ modal = 2
  /\ adjustedRatesFor(investment).pes < 0

\* the three rates of a rate triple, in the order of ValuesOf
RatesOf(r) == <<r.opt, r.mod, r.pes>>

\* C11: every adjusted rate is above -1, so every growth base is positive; each
\* stored scenario value is the unfloored product principal * (1 + rate)^months
\* and, where the rate is negative, it is strictly below the principal.
C11_NeverFloored ==
  /\ \A t \in Instruments : \A a \in AdjAll : \A i \in 1..3 :
       RateScale + RatesOf(AdjustedRates(t, a))[i] > 0
  /\ lastOp = "calc" =>
       \A i \in 1..3 :
         LET v    == ValuesOf(result)[i]
             rate == RatesOf(adjustedRatesFor(investment))[i]
         IN /\ v.c = modal /\ v.n = months /\ v.b = RateScale + rate
            /\ v.b > 0
            /\ (months <= MaxEvalMonths /\ rate < 0) =>
                 /\ Expand(v) # <<>>
                 /\ BigLess(Expand(v),
                            BigPowSmall(BigFromInt(modal), RateScale, months))

\* C11 witness: a twelve-month result of saham under inflasiUp, whose
\* pessimistic rate is -0.011.
C11_Witness ==
  /\ lastOp = "calc"
  /\ months = 12
  /\ investment = "saham"
  /\ adj = Only("inflasiUp")
  /\ adjustedRatesFor(investment).pes = -1100

\* the durations the runs of one session are compared over
Durations == {NumOrZero(v) : v \in CalcMonthsInputs}

\* C12: the stored annualModerate is ((1 + adjusted moderate rate)^12 - 1) x 100
\* and a calcAll on the same instrument, toggles and principal with any other
\* duration stores the same annualModerate.
C12_AnnualIndependentOfDuration ==
  lastOp = "calc" =>
    LET r == adjustedRatesFor(investment)
    IN /\ result.annualModerate = [b |-> RateScale + r.mod, n |-> 12]
       /\ BigPowSmall(<<1>>, result.annualModerate.b, result.annualModerate.n)
            = BigPowSmall(<<1>>, RateScale + r.mod, 12)
       /\ \A n \in Durations :
            ResultOf(r, modal, n).annualModerate = result.annualModerate

\* C12 witness: a result for 600 months under a switched toggle.
C12_Witness ==
  /\ lastOp = "calc"
  /\ months = 600
  /\ adj = Only("biDown")
  /\ result.annualModerate.n = 12

C14_ImpactLinearUncapped ==
  lastOp = "calc" =>
    /\ impact.totalDana = BigMul(BigFromInt(modal), BigFromInt(investors))
    /\ impact.impactPct.den = trxHarianBEI
    /\ impact.impactPct.num = BigMulSmall(impact.totalDana, 8)

\* C14 witness: 18 000 000 investors of 20 000 000 each give an impact above
\* 100 %.
C14_Witness ==
  /\ lastOp = "calc"
  /\ investors = 18000000
  /\ BigLess(BigMulSmall(trxHarianBEI, 100), impact.impactPct.num)

\* C15: with a positive principal and investor count the curve has exactly ten
\* points, the i-th at x = investors x i / 10 and y = 8 x (x x principal) /
\* trxHarianBEI, and neither x nor y decreases along the sequence.
C15_TenPointsNonDecreasing ==
  (modal > 0 /\ investors > 0) =>
    LET pts == corrPoints
    IN /\ Len(pts) = 10
       /\ \A i \in 1..10 :
            /\ pts[i].x.den = 10
            /\ pts[i].x.num = BigMulSmall(BigFromInt(investors), i)
            /\ pts[i].y.den = BigMulSmall(trxHarianBEI, 10)
            /\ pts[i].y.num =
                 BigMulSmall(BigMul(pts[i].x.num, BigFromInt(modal)), 8)
       /\ \A i \in 1..9 :
            /\ ~BigLess(pts[i + 1].x.num, pts[i].x.num)
            /\ ~BigLess(pts[i + 1].y.num, pts[i].y.num)

\* C15 witness: the chart of the results screen for 18 000 000 investors; its
\* last point is the stored impact.
C15_Witness ==
  /\ Step5Shown
  /\ lastOp = "calc"
  /\ investors = 18000000
  /\ Len(corrPoints) = 10
  /\ corrPoints[10].y.num = BigMulSmall(impact.impactPct.num, 10)

\* C16: the curve is empty exactly when the principal or the investor count
\* is 0 (an empty field counts as 0), and has ten points in every other state.
C16_EmptyIffZeroInput ==
  LET pts == corrPoints
  IN /\ (pts = <<>>) <=> (modal = 0 \/ investors = 0)
     /\ Len(pts) \in {0, 10}

\* C16 witness: the results screen computed with the investor field left
\* empty, so that the chart has no points.
C16_Witness ==
  /\ Step5Shown
  /\ modal > 0
  /\ investorsStr = <<>>
  /\ corrPoints = <<>>

\* productive shares from 0 to 1, in hundredths
PorsiGrid == {0, 25, 50, 70, 100}

\* tambahanInflasi of the current principal, investors and PDB at share p
TambahanAt(p) == tambahanInflasiOf(modal, investors, pdb, p)

\* the quotient q is zero
IsNol(q) == q.num = <<>> /\ ~q.neg

\* C17: on the results screen, for the current principal, investors and PDB, a
\* larger productive share in 0..1 gives a strictly smaller tambahanInflasi
\* when ratioDanaPdb > 0 and leaves it at 0 when ratioDanaPdb = 0; at share 1
\* tambahanInflasi is 0 and inflasiSimulasi is the baseline.
C17_ShareLowersTambahan ==
  Step5Shown =>
    /\ ~IsNol(ratioDanaPdb) =>
         /\ \A p1, p2 \in PorsiGrid :
              p1 < p2 => QLess(TambahanAt(p2), TambahanAt(p1))
         /\ \A p \in PorsiGrid :
              /\ porsiProduktif \in 0..(p - 1) =>
                   QLess(TambahanAt(p), tambahanInflasi)
              /\ (porsiProduktif \in 0..100 /\ p < porsiProduktif) =>
                   QLess(tambahanInflasi, TambahanAt(p))
    /\ IsNol(ratioDanaPdb) => \A p \in PorsiGrid : IsNol(TambahanAt(p))
    /\ IsNol(TambahanAt(100))
    /\ porsiProduktif = 100 =>
         /\ IsNol(tambahanInflasi)
         /\ inflasiSimulasi.awal = inflasiAwal
         /\ IsNol(inflasiSimulasi.tambahan)

\* C17 witness: the share was set to 1 while the pooled funds are a positive
\* part of the PDB.
C17_Witness ==
  /\ Step5Shown
  /\ porsiProduktif = 100
  /\ ~IsNol(ratioDanaPdb)
  /\ IsNol(tambahanInflasi)

\* C18: whenever the PDB is 0 or negative, ratioDanaPdb and tambahanInflasi
\* are 0 and inflasiSimulasi is the baseline, whatever the principal, the
\* investor count and the productive share.
C18_DegeneratePdbIsZeroRatio ==
  pdb <= 0 =>
    /\ IsNol(ratioDanaPdb)
    /\ IsNol(tambahanInflasi)
    /\ inflasiSimulasi.awal = inflasiAwal
    /\ IsNol(inflasiSimulasi.tambahan)

\* C18 witness: a negative PDB on the results screen, with pooled funds and a
\* share for which a positive PDB would give a non-zero tambahanInflasi.
C18_Witness ==
  /\ Step5Shown
  /\ pdb < 0
  /\ porsiProduktif = 200
  /\ totalDanaOf(modal, investors) # <<>>
  /\ ~IsNol(tambahanInflasiOf(modal, investors, 1, porsiProduktif))

\* C19: the share on screen enters tambahanInflasi as it was typed: above 1,
\* with ratioDanaPdb > 0, tambahanInflasi is negative and inflasiSimulasi is
\* below the baseline; below 0 tambahanInflasi exceeds k x ratio x 100, its
\* value at share 0.
C19_ShareOutsideRangeUsedAsIs ==
  /\ tambahanInflasi = tambahanOfRatio(ratioDanaPdb, porsiProduktif)
  /\ (porsiProduktif > 100 /\ ~IsNol(ratioDanaPdb)) =>
       /\ tambahanInflasi.neg
       /\ QLess(tambahanInflasi, Nol)
       /\ QLess(inflasiSimulasi.tambahan, Nol)
  /\ (porsiProduktif < 0 /\ ~IsNol(ratioDanaPdb)) =>
       /\ ~tambahanInflasi.neg
       /\ QLess(TambahanAt(0), tambahanInflasi)

\* C19 witness: the share 2 was typed on the results screen and the simulated
\* inflation is below the baseline.
C19_Witness ==
  /\ Step5Shown
  /\ porsiProduktif = 200
  /\ ~IsNol(ratioDanaPdb)
  /\ inflasiSimulasi.tambahan.neg

\* C20 (as stated): on the results screen, with a positive PDB and a share in
\* 0..1, the simulated inflation is at most the initial inflation.
C20_SimulasiAtMostAwal ==
  (Step5Shown /\ pdb > 0 /\ porsiProduktif \in 0..100) =>
    /\ inflasiSimulasi.awal = inflasiAwal
    /\ ~QLess(Nol, inflasiSimulasi.tambahan)

\* C21: the report written by "Download TXT" carries the values the results
\* screen shows at that moment: the three scenario values, the monthly and the
\* annualized moderate rate, the total fund, the impact percentage, the
\* principal, the duration and the three what-if flags
QEq(a, b) == BigMul(a.num, b.den) = BigMul(b.num, a.den)

C21_ReportMatchesScreen ==
  lastOp = "download" =>
    LET f == ReportOf
        g == ScreenOf
    IN /\ f.optimis = g.optimis
       /\ f.moderat = g.moderat
       /\ f.pesimis = g.pesimis
       /\ f.bulanan = g.bulanan
       /\ f.annualized = g.annualized
       /\ f.totalDana = g.totalDana
       /\ QEq(f.impactPct.of, g.impactPct.of)
       /\ f.modal = g.modal
       /\ f.durasi = g.durasi
       /\ f.whatIf = g.pills

\* a report written after a pill was clicked and not applied
C21_Witness ==
  /\ lastOp = "download"
  /\ adj = Only("biDown")
  /\ result = Projection(AdjOff)
  /\ months = 600
  /\ investors = 0

\* C22: saham has the base monthly rates 0.015 (optimistic), 0.008 (moderate)
\* and -0.01 (pessimistic); with only the inflation pill on they are 0.013,
\* 0.006 and -0.011; and a calcAll on saham compounds exactly these rates
SahamRates(a) ==
  IF a = AdjOff THEN [opt |-> 1500, mod |-> 800, pes |-> -1000]
  ELSE [opt |-> 1300, mod |-> 600, pes |-> -1100]

C22_SahamRates ==
  /\ RateScale = 100000
  /\ base["saham"] = SahamRates(AdjOff)
  /\ AdjustedRates("saham", Only("inflasiUp")) = SahamRates(Only("inflasiUp"))
  /\ (lastOp = "calc" /\ investment = "saham"
        /\ adj \in {AdjOff, Only("inflasiUp")}) =>
       /\ adjustedRatesFor(investment) = SahamRates(adj)
       /\ result.optV = [c |-> modal, b |-> RateScale + SahamRates(adj).opt,
                         n |-> months]
       /\ result.modV = [c |-> modal, b |-> RateScale + SahamRates(adj).mod,
                         n |-> months]
       /\ result.pesV = [c |-> modal, b |-> RateScale + SahamRates(adj).pes,
                         n |-> months]

\* saham projected over two months with only the inflation pill applied
C22_Witness ==
  /\ lastOp = "calc"
  /\ investment = "saham"
  /\ adj = Only("inflasiUp")
  /\ months = 2
  /\ result.modV.b = 100600

\* a factored value, taken for a principal a thousand times as large, stays
\* below 10^308 and so below the largest double: its monthly factor doubles in
\* no less than 36 months, 600 months are fewer than 17 such spans, and
\* 1000 * c * 2^17 has at most 77 limbs of four digits
NoOverflow(v) ==
  /\ v.n <= 36 * 17
  /\ BigLess(BigPowSmall(<<1>>, v.b, 36), BigPowSmall(<<2>>, RateScale, 36))
  /\ Len(BigPowSmall(BigMulSmall(BigFromInt(v.c), 1000), 2, 17)) <= 77

\* C23: with a duration of 1 or of 600 months, any instrument and a principal
\* of 1 or of 10^9, "Lihat Hasil" is enabled at step 4 and the guard of calcAll
\* passes; the result it stores has all five fields, compounded over that
\* duration, and no value overflows even for a principal a thousand times
\* larger (10^12); with a duration of 0 the button is not enabled, a duration
\* of 601 is an error to the validator, and no state has a duration above 600
C23_BoundariesCompute ==
  /\ months <= 600
  /\ Validate(4, nama, usia, investment, modalStr, <<"6", "0", "1">>,
              investorsStr).months
  /\ (step = 4 /\ months \in {1, 600}) =>
       /\ modal \in {1, 1000 * 1000 * 1000}
       /\ LihatHasilAllowed
       /\ CalcGuard
  /\ (step = 4 /\ months = 0) => ~LihatHasilAllowed
  /\ lastOp = "calc" =>
       /\ months \in {1, 600}
       /\ DOMAIN result = {"optV", "modV", "pesV", "monthlyModeratePct",
                           "annualModerate"}
       /\ \A f \in {"optV", "modV", "pesV"} :
            /\ result[f].c = modal
            /\ result[f].n = months
            /\ NoOverflow(result[f])

\* saham over 600 months on the largest principal, every pill applied
C23_Witness ==
  /\ lastOp = "calc"
  /\ months = 600
  /\ modal = 1000 * 1000 * 1000
  /\ investment = "saham"
  /\ \A t \in Toggles : adj[t]
  /\ result.optV.b = RateScale + 1650

\* C24: a click on a what-if pill flips exactly that toggle and leaves the
\* other two, every input, the result and the impact as they were; and a
\* second click on the same pill, which is then possible, leads back to the
\* toggles before the first
C24_PillsOrthogonal ==
  [][\A t \in Toggles :
       Toggle(t) =>
         /\ adj'[t] = ~adj[t]
         /\ \A u \in Toggles \ {t} : adj'[u] = adj[u]
         /\ UNCHANGED <<step, nama, usia, pekerjaan, investment, modalStr,
                        monthsStr, investorsStr, result, impact, pdb,
                        porsiProduktif>>
         /\ step' = 5 /\ result' # NULL /\ impact' # NULL
         /\ [adj' EXCEPT ![t] = ~adj'[t]] = adj]_vars

\* two pills were clicked on a result computed with the pills off
C24_Witness ==
  /\ Step5Shown
  /\ lastOp = "none"
  /\ adj = [inflasiUp |-> TRUE, biDown |-> TRUE, ihsgUp |-> FALSE]
  /\ result = Projection(AdjOff)
  /\ investment = "emas"

\* C25: result and impact are both null or both set, whenever step is 5 both
\* are set, so the results page is never blank, and no calcAll that a button
\* triggers returns at its guard
C25_ResultAndImpactTogether ==
  /\ (result = NULL) <=> (impact = NULL)
  /\ step = 5 => (result # NULL /\ impact # NULL)
  /\ lastOp # "skip"

\* the results page right after a computation with the investor field cleared
C25_Witness ==
  /\ step = 5
  /\ lastOp = "calc"
  /\ investorsStr = <<>>
  /\ result # NULL
  /\ impact # NULL

\* the 10th point of the curve is at x = investors, y = impact.impactPct
TenthPointIsImpact ==
  LET pts == corrPoints
  IN /\ Len(pts) = 10
     /\ pts[10].x.num = BigMulSmall(BigFromInt(investors), pts[10].x.den)
     /\ QEq(pts[10].y, impact.impactPct)

\* the snapshot of calcAll and the live aggregate agree
TotalsAgree ==
  /\ impact.totalDana = BigMul(BigFromInt(modal), BigFromInt(investors))
  /\ totalDanaOf(modal, investors) = impact.totalDana

C27_ScenariosOrdered ==
  /\ \A type \in Instruments : \A a \in AdjAll :
       LET r == AdjustedRates(type, a)
       IN r.pes <= r.mod /\ r.mod <= r.opt
  /\ lastOp = "calc" =>
       /\ result.pesV.c = result.modV.c /\ result.modV.c = result.optV.c
       /\ result.pesV.n = result.modV.n /\ result.modV.n = result.optV.n
       /\ 0 < result.pesV.b
       /\ result.pesV.b <= result.modV.b
       /\ result.modV.b <= result.optV.b
       /\ months <= MaxEvalMonths =>
            LET p == Expand(result.pesV)
                m == Expand(result.modV)
                o == Expand(result.optV)
            IN ~BigLess(m, p) /\ ~BigLess(o, m)

\* deposito over a year with the rate cut applied: its three rates come
\* closest to each other
C27_Witness ==
  /\ lastOp = "calc"
  /\ investment = "deposito"
  /\ adj = Only("biDown")
  /\ months = 12
  /\ result.pesV.b = RateScale + 180
  /\ result.modV.b = RateScale + 260

\* C28 (as stated): "Mulai Lagi" leaves every state variable at its initial
\* value: step 1, empty profile, no instrument, empty principal and duration,
\* investors 18000000, all toggles off, result and impact null, PDB 20000 and
\* productive share 0.7
C28_ResetRestoresInitial ==
  [][resetAll =>
       /\ step' = 1
       /\ nama' = <<>> /\ usia' = <<>> /\ pekerjaan' = <<>>
       /\ investment' = ""
       /\ modalStr' = <<>> /\ monthsStr' = <<>>
       /\ investorsStr' = <<"1", "8", "0", "0", "0", "0", "0", "0">>
       /\ adj' = AdjOff
       /\ result' = NULL /\ impact' = NULL
       /\ pdb' = 20000
       /\ porsiProduktif' = 70]_vars

\* C29 (as stated): each principal preset adds its labelled amount to the
\* current principal: "+ 500 rb" leaves m + 500000, "+ 1 jt" leaves
\* m + 1000000 and "+ 5 jt" leaves m + 5000000
C29_PresetsAddTheirLabel ==
  [][/\ Preset500rb => NumOrZero(modalStr') = modal + 500000
     /\ Preset1jt => NumOrZero(modalStr') = modal + 1000000
     /\ Preset5jt => NumOrZero(modalStr') = modal + 5000000]_vars

\* C30: step is always one of 1..5, so going back never leads below 1; from
\* step 3 on the trimmed name has 2 to 30 characters and the age is empty or
\* from 10 to 100; from step 4 on an instrument is selected
C30_WizardGating ==
  /\ step \in 1..5
  /\ step >= 3 =>
       /\ Len(trim(nama)) >= 2
       /\ Len(trim(nama)) <= 30
       /\ (usia = <<>> \/ (NumOrZero(usia) >= 10 /\ NumOrZero(usia) <= 100))
  /\ step >= 4 => investment \in Instruments

\* back at step 3 after the numbers step was reached and left again, with an
\* age typed and a name that is valid only once trimmed
C30_Witness ==
  /\ step = 3
  /\ edits = 5
  /\ modalStr = <<"2">>
  /\ usia # <<>>
  /\ Len(nama) > Len(trim(nama))

====
